---------------------------- MODULE Spec2Model ----------------------------
(***************************************************************************)
(* SLALOM: comparison of two annotations of sites along a sequence.        *)
(* Model of src/slalom_auxiliar.py for one sequence of one group: the      *)
(* overlap resolver of CSVParser, the Boolean and the enrichment sequence  *)
(* calculators, and the performance measures derived from basic counts.    *)
(*                                                                         *)
(* A site is a tuple <<begin, end>> or <<begin, end, name>>, positions are *)
(* 1-based and inclusive.  The classification arrays are indexed from 0,   *)
(* as the numpy arrays of the source are.                                  *)
(***************************************************************************)
EXTENDS Integers, Sequences, FiniteSets, TLC

VARIABLES
    pc,             \* position of the run
    opt,            \* the command line options (self.opt)
    length,         \* input_data.seq_len[SID], current_seq.length
    sorted_sites,   \* the site lists as _sort_annotations left them
    sites,          \* input_data.sites[i][GID][SID], current_seq.sites[i]
    seq,            \* the calculator's array(s) self.seq
    results,        \* the calculator's basic measures self.results
    files,          \* rows written to the output annotation files
    site_file,      \* rows written to the site-wise statistics file
    basic_measures, \* PerformanceCalculator.basic_measures
    performance_measures, \* PerformanceCalculator.performance_measures
    GID,            \* position of process in input_data.group_map.keys()
    SID,            \* position of process_group in input_data.group_map[GID]
    group_results,  \* BasicCalculator.process_group: the accumulated results
    averaging_count,    \* BasicCalculator.process_group: the divisor
    database_results,   \* DataProcessor.database_results
    groups_n,       \* DataProcessor.process: the number of groups
    ofile,          \* rows written to the output file of the measures
    input_data      \* input_data.group_map: the sequence lengths of each group

\* the state of DataProcessor.process and of BasicCalculator.process_group
groupVars == <<GID, SID, group_results, averaging_count, database_results,
               groups_n, ofile, input_data>>

vars == <<pc, opt, length, sorted_sites, sites, seq, results, files,
          site_file, basic_measures, performance_measures, GID, SID,
          group_results, averaging_count, database_results, groups_n, ofile,
          input_data>>

-----------------------------------------------------------------------------
(* Bounds of the model *)

MaxLen == 4          \* longest sequence of a symbol-wise run
MaxShortLen == 3     \* length of the sequence of a resolver or a site-wise run
MaxSites == 3        \* most sites of the two annotations in the sequence
MaxCount == 3        \* largest basic count given to the measures
MaxSiteCount == 1    \* largest count of matched or unmatched sites of an annotation
MaxGroups == 2       \* most groups of the group mapping
MaxValue == 2        \* largest value of a measure of a group
MaxSeqs == 2         \* most sequences of a group
MaxSiteLists == 129  \* sites of one annotation in the runs of the constructor

-----------------------------------------------------------------------------
(* Helpers of the model *)

Min(a, b) == IF a <= b THEN a ELSE b
Max(a, b) == IF a >= b THEN a ELSE b

RECURSIVE SumTo(_, _)
\* sum of f[1..n]
SumTo(f, n) == IF n = 0 THEN 0 ELSE f[n] + SumTo(f, n - 1)

\* every site <<b, e>> of a sequence of length len
AllSites(len) == {<<b, e>> : b \in 1..len, e \in 1..len} \ {s \in (1..len) \X (1..len) : s[1] > s[2]}

\* _sort_annotations: the list is ascending by begin (ties keep file order)
IsSortedByBegin(list) == \A k \in 1..(Len(list) - 1) : list[k][1] <= list[k + 1][1]

\* the sorted lists of m sites of a sequence of length len
SortedLists(len, m) == {list \in [1..m -> AllSites(len)] : IsSortedByBegin(list)}

\* the sorted lists of the two annotations, of at most n sites together
SortedListPairs(len, n) ==
    UNION {SortedLists(len, a) \X SortedLists(len, b) :
           <<a, b>> \in {c \in (0..n) \X (0..n) : c[1] + c[2] <= n}}

\* with site names, the name is the third element of the site: the records
\* of one annotation file are given distinct names
WithNames(list) == [k \in 1..Len(list) |-> <<list[k][1], list[k][2], k>>]

\* positions covered by a site, and by a list of sites
Covers(site, p) == site[1] <= p /\ p <= site[2]
Covered(list) == {p \in 1..MaxLen + 1 : \E k \in 1..Len(list) : Covers(list[k], p)}

Overlap(s, t) == s[1] <= t[2] /\ t[1] <= s[2]
NonOverlapping(list) ==
    \A k \in 1..Len(list) : \A m \in 1..Len(list) : k # m => ~Overlap(list[k], list[m])

-----------------------------------------------------------------------------
(* CSVParser._resolve_overlaps_within_annotations *)

\* float('inf') of the 'last' policy: above every position
Infinity == MaxLen + 2

RECURSIVE FirstLoop(_, _, _, _)
\* policy 'first': loop over the sites from index k on
FirstLoop(list, k, last_end, sites_new) ==
    IF k > Len(list) THEN sites_new
    ELSE LET site == list[k] IN
         FirstLoop(list, k + 1, site[2],
                   IF site[1] > last_end THEN Append(sites_new, site) ELSE sites_new)

RECURSIVE LastLoop(_, _, _, _)
\* policy 'last': loop over reversed(sites) from index k down
LastLoop(list, k, next_begin, sites_new) ==
    IF k < 1 THEN sites_new
    ELSE LET site == list[k] IN
         LastLoop(list, k - 1, site[1],
                  IF site[2] < next_begin THEN <<site>> \o sites_new ELSE sites_new)

RECURSIVE MergeLoop(_, _, _, _, _)
\* policy 'merge': loop over the sites from index k on, and the final append
MergeLoop(list, k, last_end, new_begin, sites_new) ==
    IF k > Len(list)
    THEN IF new_begin > 0 THEN Append(sites_new, <<new_begin, last_end>>) ELSE sites_new
    ELSE LET site == list[k] IN
         IF site[1] > last_end
         THEN MergeLoop(list, k + 1, site[2], site[1],
                        IF new_begin > 0
                        THEN Append(sites_new, <<new_begin, last_end>>)
                        ELSE sites_new)
         ELSE MergeLoop(list, k + 1, site[2], new_begin, sites_new)

\* faulty variant: 'last' scans the list forward, as 'first' does
ResolveList_last_forward(policy, list) ==
    CASE policy = "all" -> list
      [] policy = "first" -> FirstLoop(list, 1, 0, <<>>)
      [] policy = "last" -> FirstLoop(list, 1, 0, <<>>)
      [] policy = "merge" -> MergeLoop(list, 1, 0, 0, <<>>)

\* faulty variant: 'last' appends the kept sites instead of inserting them in front
ResolveList_last_appends(policy, list) ==
    CASE policy = "all" -> list
      [] policy = "first" -> FirstLoop(list, 1, 0, <<>>)
      [] policy = "last" ->
            LET kept == LastLoop(list, Len(list), Infinity, <<>>)
            IN  [k \in 1..Len(kept) |-> kept[Len(kept) + 1 - k]]
      [] policy = "merge" -> MergeLoop(list, 1, 0, 0, <<>>)

\* the body of the loop over the site lists, for one list and one policy
ResolveList(policy, list) ==
    CASE policy = "all" -> list
      [] policy = "first" -> FirstLoop(list, 1, 0, <<>>)
      [] policy = "last" -> LastLoop(list, Len(list), Infinity, <<>>)
      [] policy = "merge" -> MergeLoop(list, 1, 0, 0, <<>>)

Policy(o, i) == IF i = 1 THEN o.anno1_resolve_overlaps ELSE o.anno2_resolve_overlaps

_resolve_overlaps_within_annotations ==
    /\ pc = "sorted"
    /\ sites' = [i \in 1..2 |-> ResolveList(Policy(opt, i), sites[i])]
    /\ pc' = "resolved"
    /\ UNCHANGED <<opt, length, sorted_sites, seq, results, files, site_file,
                   basic_measures, performance_measures>>
    /\ UNCHANGED groupVars

-----------------------------------------------------------------------------
(* BasicBooleanSequenceCalculator *)

\* np.zeros(shape = current_seq.length): indices 0 .. length - 1
Zeros(len) == [idx \in 0..(len - 1) |-> 0]

\* faulty variant: range(site[0], site[1]), the begin taken as an index
InRange_from_begin(site, idx) == site[1] <= idx /\ idx < site[2]

\* range(site[0] - 1, site[1])
InRange(site, idx) == site[1] - 1 <= idx /\ idx < site[2]

\* np.sum(array[lo: hi] == v)
CountEq(array, lo, hi, v) == Cardinality({idx \in lo..(hi - 1) : array[idx] = v})

\* BasicBooleanMeasures(): every count starts at zero
BasicBooleanMeasures ==
    [pp |-> 0, pp_ |-> <<0, 0>>, pa |-> 0, ap |-> 0, aa |-> 0,
     site_m |-> <<0, 0>>, site_nm |-> <<0, 0>>, site_len |-> <<0, 0>>]

RECURSIVE ClassifyFirst(_, _, _)
\* _classify_symbols, the loop over the sites of annotation 1 from index k on
ClassifyFirst(array, list, k) ==
    IF k > Len(list) THEN array
    ELSE ClassifyFirst([idx \in DOMAIN array |->
                            IF InRange(list[k], idx) THEN 1 ELSE array[idx]],
                       list, k + 1)

RECURSIVE ClassifySecond(_, _, _)
\* _classify_symbols, the loop over the sites of annotation 2 from index k on
ClassifySecond(array, list, k) ==
    IF k > Len(list) THEN array
    ELSE ClassifySecond([idx \in DOMAIN array |->
                            IF InRange(list[k], idx)
                            THEN IF array[idx] = 0 THEN 2
                                 ELSE IF array[idx] = 1 THEN 3 ELSE array[idx]
                            ELSE array[idx]],
                        list, k + 1)

_classify_symbols(array, ss) == ClassifySecond(ClassifyFirst(array, ss[1], 1), ss[2], 1)

Boolean_in_union(array, idx) == array[idx] >= 1
Boolean_in_intersection(array, idx) == array[idx] = 3
Boolean_in_complement1(array, idx) == array[idx] = 2
Boolean_in_complement2(array, idx) == array[idx] = 1

\* faulty variant: the difference of the bounds is not made a count
_get_overlapped_symbols_no_increment(o, site, site_, annotation_idx) ==
    LET shared == Max(Min(Min(site[2] - site_[1], site_[2] - site[1]),
                          Min(site[2] - site[1], site_[2] - site_[1])), 0)
    IN  IF o.predictor_nature # "neutral"
        THEN IF (o.predictor_nature = "lagging") = (annotation_idx = 1)
             THEN IF site_[1] < site[1] THEN 0 ELSE shared
             ELSE IF site_[1] > site[1] THEN 0 ELSE shared
        ELSE shared

\* faulty variant: the nature is applied as for the first annotation on
\* both sides
_get_overlapped_symbols_one_sided(o, site, site_, annotation_idx) ==
    LET shared == Max(Min(Min(site[2] - site_[1], site_[2] - site[1]),
                          Min(site[2] - site[1], site_[2] - site_[1])) + 1, 0)
    IN  IF o.predictor_nature # "neutral"
        THEN IF o.predictor_nature = "lagging"
             THEN IF site_[1] < site[1] THEN 0 ELSE shared
             ELSE IF site_[1] > site[1] THEN 0 ELSE shared
        ELSE shared

_get_overlapped_symbols(o, site, site_, annotation_idx) ==
    LET shared == Max(Min(Min(site[2] - site_[1], site_[2] - site[1]),
                          Min(site[2] - site[1], site_[2] - site_[1])) + 1, 0)
    IN  IF o.predictor_nature # "neutral"
        THEN IF (o.predictor_nature = "lagging") = (annotation_idx = 1)
             THEN IF site_[1] < site[1] THEN 0 ELSE shared
             ELSE IF site_[1] > site[1] THEN 0 ELSE shared
        ELSE shared

\* faulty variant: the length of the current site under every setting
_get_site_length_current(o, site, site_) == site[2] - site[1] + 1

_get_site_length(o, site, site_) ==
    CASE o.overlap_apply = "shortest" -> Min(site[2] - site[1], site_[2] - site_[1]) + 1
      [] o.overlap_apply = "longest" -> Max(site[2] - site[1], site_[2] - site_[1]) + 1
      [] o.overlap_apply \in {"current", "patched"} -> site[2] - site[1] + 1

\* overlap_part is the fraction <<numerator, denominator>>:
\* overlapped_symbols / site_length >= overlap_part
_check_overlap_sufficiency(o, overlapped_symbols, site_length) ==
    /\ overlapped_symbols >= o.overlap_symbols
    /\ overlapped_symbols * o.overlap_part[2] >= o.overlap_part[1] * site_length

\* round(100 * n / d): to the nearest integer, a tie to the even one
RoundPerc(n, d) ==
    LET q == (100 * n) \div d
        r == (100 * n) % d
    IN  IF 2 * r < d THEN q
        ELSE IF 2 * r > d THEN q + 1
        ELSE IF q % 2 = 0 THEN q ELSE q + 1

\* calculate_residue_wise, gross: the loop over the sites of annotation i
GrossMatched(array, list) ==
    SumTo([k \in 1..Len(list) |-> CountEq(array, list[k][1] - 1, list[k][2], 3)], Len(list))

\* faulty variant: the matched symbols of a site are not subtracted
GrossUnmatched_whole_site(array, list) ==
    SumTo([k \in 1..Len(list) |-> list[k][2] - list[k][1] + 1], Len(list))

GrossUnmatched(array, list) ==
    SumTo([k \in 1..Len(list) |->
              (list[k][2] - list[k][1] + 1) - CountEq(array, list[k][1] - 1, list[k][2], 3)],
          Len(list))

\* faulty variant: pa counts every symbol of annotation 1, the shared ones too
ResidueWise_pa_counts_shared(o, array, ss, res) ==
    LET len == Cardinality(DOMAIN array) IN
    IF o.gross
    THEN [res EXCEPT !.pa = 0 + GrossUnmatched(array, ss[1]),
                     !.ap = 0 + GrossUnmatched(array, ss[2]),
                     !.pp_ = <<res.pp_[1] + GrossMatched(array, ss[1]),
                               res.pp_[2] + GrossMatched(array, ss[2])>>,
                     !.aa = CountEq(array, 0, len, 0)]
    ELSE LET both == CountEq(array, 0, len, 3) IN
         [res EXCEPT !.pp = both,
                     !.pp_ = <<both, both>>,
                     !.pa = CountEq(array, 0, len, 1) + both,
                     !.ap = CountEq(array, 0, len, 2),
                     !.aa = CountEq(array, 0, len, 0)]

\* calculate_residue_wise of the Boolean calculator
ResidueWise(o, array, ss, res) ==
    LET len == Cardinality(DOMAIN array) IN
    IF o.gross
    THEN [res EXCEPT !.pa = 0 + GrossUnmatched(array, ss[1]),
                     !.ap = 0 + GrossUnmatched(array, ss[2]),
                     !.pp_ = <<res.pp_[1] + GrossMatched(array, ss[1]),
                               res.pp_[2] + GrossMatched(array, ss[2])>>,
                     !.aa = CountEq(array, 0, len, 0)]
    ELSE LET both == CountEq(array, 0, len, 3) IN
         [res EXCEPT !.pp = both,
                     !.pp_ = <<both, both>>,
                     !.pa = CountEq(array, 0, len, 1),
                     !.ap = CountEq(array, 0, len, 2),
                     !.aa = CountEq(array, 0, len, 0)]

\* faulty variant: the loop breaks on the end of the candidate
BreaksAt_on_end(site, site_) == site_[2] > site[2]

\* lines 623-624: the candidates are sorted, none after site_ can overlap
BreaksAt(site, site_) == site_[1] > site[2]

RECURSIVE FindMatch(_, _, _, _, _)
\* the loop over the sites of annotation j from index k on: the index of the
\* candidate at which the loop breaks with found_match, 0 without a match
FindMatch(o, site, candidates, i, k) ==
    IF k > Len(candidates) THEN 0
    ELSE LET site_ == candidates[k] IN
         IF BreaksAt(site, site_) THEN 0
         ELSE IF _check_overlap_sufficiency(o,
                     _get_overlapped_symbols(o, site, site_, i),
                     _get_site_length(o, site, site_))
              THEN k
              ELSE FindMatch(o, site, candidates, i, k + 1)

\* the row of the site-wise statistics file for a site, None when the
\* site_difference filter skips it
PairwiseRow(o, site, candidates, i, m) ==
    LET found_match == m > 0
        site_ == candidates[m]
        overlapped_symbols == IF found_match
                              THEN _get_overlapped_symbols(o, site, site_, i) ELSE 0
        length_perc_1 == IF found_match
                         THEN RoundPerc(overlapped_symbols, site[2] - site[1] + 1) ELSE 0
        length_perc_2 == IF found_match
                         THEN RoundPerc(overlapped_symbols, site_[2] - site_[1] + 1) ELSE 0
    IN  IF \/ o.site_difference = "unmatched" /\ found_match
           \/ o.site_difference = "discrepant" /\ length_perc_1 = 100 /\ length_perc_2 = 100
        THEN <<>>
        ELSE <<[annotation |-> i, site |-> site,
                overlapped_symbols |-> overlapped_symbols,
                length_perc_1 |-> length_perc_1, length_perc_2 |-> length_perc_2,
                begin_ |-> IF found_match THEN site_[1] ELSE "-",
                end_ |-> IF found_match THEN site_[2] ELSE "-",
                partner |-> IF found_match THEN site_ ELSE <<>>]>>

\* faulty variant: found_match is never set, a matched site counts as unmatched too
CountSite_flag_not_set(o, res, i, site, last_end, m) ==
    LET site_effective_begin == IF o.gross THEN site[1] ELSE Max(site[1], last_end + 1)
        res1 == [res EXCEPT !.site_len[i] = @ + site[2] - site_effective_begin + 1]
    IN  IF m > 0 THEN [res1 EXCEPT !.site_m[i] = @ + 1, !.site_nm[i] = @ + 1]
        ELSE [res1 EXCEPT !.site_nm[i] = @ + 1]

\* lines 618-632: the measures after the site of annotation i that matched
\* candidate m (0: no match)
CountSite(o, res, i, site, last_end, m) ==
    LET site_effective_begin == IF o.gross THEN site[1] ELSE Max(site[1], last_end + 1)
        res1 == [res EXCEPT !.site_len[i] = @ + site[2] - site_effective_begin + 1]
    IN  IF m > 0 THEN [res1 EXCEPT !.site_m[i] = @ + 1]
        ELSE [res1 EXCEPT !.site_nm[i] = @ + 1]

RECURSIVE PairwiseLoop(_, _, _, _, _, _)
\* calculate_site_wise under shortest, longest, current: the loop over the
\* sites of annotation i from index k on; st is [res, rows]
PairwiseLoop(o, ss, i, k, last_end, st) ==
    IF k > Len(ss[i]) THEN st
    ELSE LET site == ss[i][k]
             m == FindMatch(o, site, ss[3 - i], i, 1)
             rows == IF "site" \in o.output_files
                     THEN st.rows \o PairwiseRow(o, site, ss[3 - i], i, m)
                     ELSE st.rows
         IN  PairwiseLoop(o, ss, i, k + 1, site[2],
                          [res |-> CountSite(o, st.res, i, site, last_end, m),
                           rows |-> rows])

\* faulty variant: every covered position of the site counts as matched
PatchedMatch_counts_covered(o, array, site) ==
    _check_overlap_sufficiency(o, site[2] - site[1] + 1 - CountEq(array, site[1] - 1, site[2], 0),
                               site[2] - site[1] + 1)

\* lines 672-674
PatchedMatch(o, array, site) ==
    _check_overlap_sufficiency(o, CountEq(array, site[1] - 1, site[2], 3),
                               site[2] - site[1] + 1)

\* lines 675-678
CountPatchedSite(res, i, found_match) ==
    IF found_match THEN [res EXCEPT !.site_m[i] = @ + 1]
    ELSE [res EXCEPT !.site_nm[i] = @ + 1]

RECURSIVE PatchedLoop(_, _, _, _, _, _)
\* calculate_site_wise under patched: the loop over the sites of annotation i
PatchedLoop(o, array, ss, i, k, res) ==
    IF k > Len(ss[i]) THEN res
    ELSE PatchedLoop(o, array, ss, i, k + 1,
                     CountPatchedSite(res, i, PatchedMatch(o, array, ss[i][k])))

\* the patched branch reads overlapped_symbols (line 699) and j (lines 688,
\* 723), which only the other branch assigns: UnboundLocalError
PatchedRaises(o, array, ss) ==
    \/ /\ "site" \in o.output_files
       /\ \E i \in 1..2 : \E k \in 1..Len(ss[i]) :
             ~(PatchedMatch(o, array, ss[i][k]) /\ o.site_difference = "unmatched")
    \/ /\ "detailed" \in o.output_files
       /\ \E i \in 1..2 : Len(ss[i]) > 0

\* calculate_site_wise: [raised, res, rows]
SiteWise(o, array, ss, res) ==
    IF o.overlap_apply \in {"shortest", "longest", "current"}
    THEN LET st1 == PairwiseLoop(o, ss, 1, 1, 0, [res |-> res, rows |-> <<>>])
             st2 == PairwiseLoop(o, ss, 2, 1, 0, st1)
         IN  [raised |-> FALSE, res |-> st2.res, rows |-> st2.rows]
    ELSE IF PatchedRaises(o, array, ss)
         THEN [raised |-> TRUE, res |-> res, rows |-> <<>>]
         ELSE [raised |-> FALSE,
               res |-> PatchedLoop(o, array, ss, 2, 1, PatchedLoop(o, array, ss, 1, 1, res)),
               rows |-> <<>>]

-----------------------------------------------------------------------------
(* BasicEnrichmentSequenceCalculator *)

RECURSIVE CountLoop(_, _, _, _)
\* _count_occurrences, the loop over the sites lo..hi of one annotation, for
\* the element idx of the array: the increments of line 742, added up in
\* two halves of the list
CountLoop(list, idx, lo, hi) ==
    IF lo > hi THEN 0
    ELSE IF lo = hi THEN (IF InRange(list[lo], idx) THEN 1 ELSE 0)
    ELSE LET mid == (lo + hi) \div 2
         IN  CountLoop(list, idx, lo, mid) + CountLoop(list, idx, mid + 1, hi)

RECURSIVE Pow2(_)
Pow2(k) == IF k = 0 THEN 1 ELSE 2 * Pow2(k - 1)

RECURSIVE CeilLog2(_)
\* math.ceil(math.log(x, 2)) for x >= 1, the logarithm taken as exact
CeilLog2(x) == IF x <= 1 THEN 0 ELSE 1 + CeilLog2((x + 1) \div 2)

\* lines 770-771: bytes_required before the lookup,
\* math.ceil((math.ceil(math.log(count_limit, 2)) + 1) / 8)
BytesEstimate(ss) ==
    LET count_limit == Max(Len(ss[1]), Len(ss[2])) + 1
    IN  (CeilLog2(count_limit) + 1 + 7) \div 8

\* line 774: the list [1, 1, 2, 4, 4, 8, 8, 8, 8], indexed from 0
BytesLookup == <<1, 1, 2, 4, 4, 8, 8, 8, 8>>

\* faulty variant: the sign bit is not counted
_estimate_required_precison_no_sign_bit(ss) ==
    BytesLookup[((CeilLog2(Max(Len(ss[1]), Len(ss[2])) + 1) + 7) \div 8) + 1]

\* lines 768-775, for an estimate that line 772 accepts
_estimate_required_precison(ss) == BytesLookup[BytesEstimate(ss) + 1]

\* a value stored in a signed numpy integer of w bytes (dtype 'i' + str(w)):
\* it wraps modulo 2^(8w).  For w >= 4 the counts of a run stay far inside
\* the range
Wrap(x, w) ==
    IF w >= 4 THEN x
    ELSE ((x + Pow2(8 * w - 1)) % Pow2(8 * w)) - Pow2(8 * w - 1)

\* lines 733-742: the arrays of dtype 'i' + str(bytes_required) and the
\* increments in them; an increment that wraps at each step leaves the
\* wrapped total
_count_occurrences(len, ss) ==
    LET w == _estimate_required_precison(ss)
    IN  [i \in 1..2 |->
            [idx \in DOMAIN Zeros(len) |-> Wrap(CountLoop(ss[i], idx, 1, Len(ss[i])), w)]]

Enrichment_in_union(n, arrays, idx) == \E i \in 1..2 : arrays[i][idx] >= n
Enrichment_in_intersection(n, arrays, idx) ==
    Cardinality({i \in 1..2 : arrays[i][idx] >= n}) = 2
\* faulty variant: the count of the first annotation is not tested
Enrichment_in_complement1_second_only(n, arrays, idx) == arrays[2][idx] >= n
Enrichment_in_complement1(n, arrays, idx) == arrays[1][idx] < n /\ arrays[2][idx] >= n
Enrichment_in_complement2(n, arrays, idx) == arrays[1][idx] >= n /\ arrays[2][idx] < n
Enrichment_in_re1(n, arrays, idx) == arrays[1][idx] - arrays[2][idx] >= n
\* faulty variant: the count of the first annotation is not subtracted
Enrichment_in_re2_not_relative(n, arrays, idx) == arrays[2][idx] >= n
Enrichment_in_re2(n, arrays, idx) == arrays[2][idx] - arrays[1][idx] >= n

-----------------------------------------------------------------------------
(* BasicSequenceCalculator.write_to_files *)

BooleanTypes == {"union", "intersection", "complement1", "complement2"}
DerivedTypes == BooleanTypes \cup {"re1", "re2"}

\* getattr(self, '_in_' + type_)(idx) of the calculator that was constructed
InType(o, array, type_, idx) ==
    IF o.enrichment_count = 0
    THEN CASE type_ = "union" -> Boolean_in_union(array, idx)
           [] type_ = "intersection" -> Boolean_in_intersection(array, idx)
           [] type_ = "complement1" -> Boolean_in_complement1(array, idx)
           [] type_ = "complement2" -> Boolean_in_complement2(array, idx)
    ELSE CASE type_ = "union" -> Enrichment_in_union(o.enrichment_count, array, idx)
           [] type_ = "intersection" -> Enrichment_in_intersection(o.enrichment_count, array, idx)
           [] type_ = "complement1" -> Enrichment_in_complement1(o.enrichment_count, array, idx)
           [] type_ = "complement2" -> Enrichment_in_complement2(o.enrichment_count, array, idx)
           [] type_ = "re1" -> Enrichment_in_re1(o.enrichment_count, array, idx)
           [] type_ = "re2" -> Enrichment_in_re2(o.enrichment_count, array, idx)

\* faulty variant: the begin is written as the index, without the + 1
_write_site_begin_index(rows, begin_idx, idx) == Append(rows, <<begin_idx, idx>>)

\* _write_site: the row <<begin, end>> of the file
_write_site(rows, begin_idx, idx) == Append(rows, <<begin_idx + 1, idx>>)

RECURSIVE WriteLoop(_, _, _, _, _, _, _)
\* the loop over range(length) from idx on, and the final write
WriteLoop(o, array, type_, idx, in_site, begin_idx, rows) ==
    IF idx >= length
    THEN IF in_site THEN _write_site(rows, begin_idx, length) ELSE rows
    ELSE IF InType(o, array, type_, idx)
         THEN IF ~in_site
              THEN WriteLoop(o, array, type_, idx + 1, TRUE, idx, rows)
              ELSE WriteLoop(o, array, type_, idx + 1, in_site, begin_idx, rows)
         ELSE IF in_site
              THEN WriteLoop(o, array, type_, idx + 1, FALSE, begin_idx,
                             _write_site(rows, begin_idx, idx))
              ELSE WriteLoop(o, array, type_, idx + 1, in_site, begin_idx, rows)

\* the files of the output annotations that are open
OpenTypes(o) == o.output_files \cap DerivedTypes

\* write_to_files of a calculator, called when the run is at position at
WriteToFiles(at) ==
    /\ pc = at
    /\ files' = [type_ \in OpenTypes(opt) |->
                    WriteLoop(opt, seq, type_, 0, FALSE, "None", files[type_])]
    /\ pc' = "written"
    /\ UNCHANGED <<opt, length, sorted_sites, sites, seq, results, site_file,
                   basic_measures, performance_measures>>
    /\ UNCHANGED groupVars

-----------------------------------------------------------------------------
(* BasicCalculator._process_sequence *)

\* line 807: the calculator of the mode is constructed
Construct ==
    /\ pc = "resolved"
    /\ IF opt.enrichment_count = 0
       THEN /\ seq' = _classify_symbols(Zeros(length), sites)
            /\ results' = BasicBooleanMeasures
       ELSE /\ seq' = IF BytesEstimate(sites) > 8 THEN seq
                       ELSE _count_occurrences(length, sites)
            /\ results' = results
    /\ pc' = IF opt.enrichment_count > 0 /\ BytesEstimate(sites) > 8
             THEN "raised" ELSE "constructed"
    /\ UNCHANGED <<opt, length, sorted_sites, sites, files, site_file,
                   basic_measures, performance_measures>>
    /\ UNCHANGED groupVars

\* line 808.  In enrichment mode the method reads self.seq_length, which no
\* class sets (line 792), or writes to the detailed file that is not open
\* (line 786): AttributeError
calculate_residue_wise ==
    /\ pc = "constructed"
    /\ IF opt.enrichment_count = 0
       THEN /\ results' = ResidueWise(opt, seq, sites, results)
            /\ pc' = "residue_wise"
       ELSE /\ results' = results
            /\ pc' = "raised"
    /\ UNCHANGED <<opt, length, sorted_sites, sites, seq, files, site_file,
                   basic_measures, performance_measures>>
    /\ UNCHANGED groupVars

\* lines 809-810
calculate_site_wise ==
    /\ pc = "residue_wise"
    /\ opt.enrichment_count = 0
    /\ LET r == SiteWise(opt, seq, sites, results) IN
          /\ results' = r.res
          /\ site_file' = site_file \o r.rows
          /\ pc' = IF r.raised THEN "raised" ELSE "site_wise"
    /\ UNCHANGED <<opt, length, sorted_sites, sites, seq, files,
                   basic_measures, performance_measures>>
    /\ UNCHANGED groupVars

\* line 811
write_to_files == WriteToFiles("site_wise")

-----------------------------------------------------------------------------
(* Options *)

Policies == {"all", "first", "last", "merge"}
OverlapApply == {"shortest", "longest", "current", "patched"}
PredictorNature == {"neutral", "lagging", "leading"}

\* the options of a Boolean run that compares unnamed sites pairwise
DefaultOpt ==
    [anno1_resolve_overlaps |-> "all", anno2_resolve_overlaps |-> "all",
     site_names |-> FALSE, gross |-> FALSE, enrichment_count |-> 0,
     overlap_apply |-> "shortest", overlap_symbols |-> 1,
     overlap_part |-> <<1, 2>>, predictor_nature |-> "neutral",
     site_difference |-> "all", output_files |-> {},
     group_map |-> FALSE, groupwise |-> FALSE, na_zeros |-> FALSE,
     clean |-> FALSE]

NoResults == [none |-> TRUE]

-----------------------------------------------------------------------------
(* PerformanceCalculator *)

\* float('nan')
NaN == [nan |-> TRUE]

\* faulty variant: the last factor is left out of the test
Mcc_three_factors(bm) ==
    LET numerator == bm.pp * bm.aa + bm.ap * bm.pa
        temp == (bm.pp + bm.pa) * (bm.pp + bm.ap) * (bm.aa + bm.ap) * (bm.aa + bm.pa)
    IN  IF (bm.pp + bm.pa) * (bm.pp + bm.ap) * (bm.aa + bm.ap) > 0
        THEN [nan |-> FALSE, numerator |-> numerator, radicand |-> temp]
        ELSE NaN

\* _calc_mcc: the value numerator / math.sqrt(temp) is kept as the pair of
\* its numerator and the radicand
Mcc(bm) ==
    LET numerator == bm.pp * bm.aa + bm.ap * bm.pa
        temp == (bm.pp + bm.pa) * (bm.pp + bm.ap) * (bm.aa + bm.ap) * (bm.aa + bm.pa)
    IN  IF temp > 0 THEN [nan |-> FALSE, numerator |-> numerator, radicand |-> temp]
        ELSE NaN

_calc_mcc ==
    /\ pc = "basic"
    /\ performance_measures' = [mcc |-> Mcc(basic_measures)]
    /\ pc' = "measured"
    /\ UNCHANGED <<opt, length, sorted_sites, sites, seq, results, files,
                   site_file, basic_measures>>
    /\ UNCHANGED groupVars

\* the measures of process_group that are ratios or sums of ratios, in the
\* order of PerformanceMeasures.name_map
name_map ==
    <<"rc2", "pr2", "sp2", "npv2", "in2", "mk2", "pc", "f1",
      "site_rc2", "site_pr2", "site_pc2", "site_f1", "site_pcv">>

\* PerformanceMeasures(...): every measure starts at zero
PerformanceMeasures ==
    [name \in {name_map[i] : i \in 1..Len(name_map)} |->
        [nan |-> FALSE, num |-> 0, den |-> 1]]

get_value(pm, name) == pm[name]

set_value(pm, name, value) == [pm EXCEPT ![name] = value]

\* faulty variant: a zero denominator is divided by
Ratio_nonnegative(numerator, denominator) ==
    IF denominator >= 0 THEN [nan |-> FALSE, num |-> numerator, den |-> denominator]
    ELSE NaN

\* x / denominator if denominator > 0.0 else float('nan'); the quotient is
\* kept as the pair of its numerator and denominator
Ratio(numerator, denominator) ==
    IF denominator > 0 THEN [nan |-> FALSE, num |-> numerator, den |-> denominator]
    ELSE NaN

\* a + b - 1 in floating point: NaN if an operand is NaN
SumMinusOne(a, b) ==
    IF a.nan \/ b.nan THEN NaN
    ELSE [nan |-> FALSE,
          num |-> a.num * b.den + b.num * a.den - a.den * b.den,
          den |-> a.den * b.den]

\* the measure after name in name_map, "done" after the last
NextMeasure(name) ==
    LET i == CHOOSE k \in 1..Len(name_map) : name_map[k] = name
    IN  IF i = Len(name_map) THEN "done" ELSE name_map[i + 1]

\* one turn of the loop of process_group: the method _calc_<name> sets value
Calc(name, value) ==
    /\ pc = name
    /\ performance_measures' = set_value(performance_measures, name, value)
    /\ pc' = NextMeasure(name)
    /\ UNCHANGED <<opt, length, sorted_sites, sites, seq, results, files,
                   site_file, basic_measures>>
    /\ UNCHANGED groupVars

_calc_rc2 ==
    LET bm == basic_measures
        denominator == bm.pp_[1] + bm.pa
    IN  Calc("rc2", Ratio(bm.pp_[1], denominator))

_calc_pr2 ==
    LET bm == basic_measures
        denominator == bm.pp_[2] + bm.ap
    IN  Calc("pr2", Ratio(bm.pp_[2], denominator))

_calc_sp2 ==
    LET bm == basic_measures
        denominator == bm.aa + bm.ap
    IN  Calc("sp2", Ratio(bm.aa, denominator))

_calc_npv2 ==
    LET bm == basic_measures
        denominator == bm.aa + bm.pa
    IN  Calc("npv2", Ratio(bm.aa, denominator))

_calc_in2 ==
    Calc("in2", SumMinusOne(get_value(performance_measures, "rc2"),
                            get_value(performance_measures, "sp2")))

_calc_mk2 ==
    Calc("mk2", SumMinusOne(get_value(performance_measures, "pr2"),
                            get_value(performance_measures, "npv2")))

_calc_pc ==
    LET bm == basic_measures
        denominator == bm.pp_[2] + bm.ap + bm.pa
    IN  Calc("pc", Ratio(bm.pp_[2], denominator))

_calc_f1 ==
    LET bm == basic_measures
        denominator == 2 * bm.pp_[1] * bm.pp_[2] + bm.pp_[2] * bm.pa + bm.pp_[1] * bm.ap
    IN  Calc("f1", Ratio(2 * bm.pp_[1] * bm.pp_[2], denominator))

_calc_site_rc2 ==
    LET bm == basic_measures
        denominator == bm.site_m[1] + bm.site_nm[1]
    IN  Calc("site_rc2", Ratio(bm.site_m[1], denominator))

_calc_site_pr2 ==
    LET bm == basic_measures
        denominator == bm.site_m[2] + bm.site_nm[2]
    IN  Calc("site_pr2", Ratio(bm.site_m[2], denominator))

_calc_site_pc2 ==
    LET bm == basic_measures
        denominator == bm.site_m[2] + bm.site_nm[2] + bm.site_nm[1]
    IN  Calc("site_pc2", Ratio(bm.site_m[2], denominator))

_calc_site_f1 ==
    LET bm == basic_measures
        temp == 2 * bm.site_m[1] * bm.site_m[2]
        denominator == temp + bm.site_nm[1] * bm.site_m[2] + bm.site_nm[2] * bm.site_m[1]
    IN  Calc("site_f1", Ratio(temp, denominator))

_calc_site_pcv ==
    LET bm == basic_measures
        temp == bm.site_m[1] + bm.site_m[2]
        denominator == temp + bm.site_nm[1] + bm.site_nm[2]
    IN  Calc("site_pcv", Ratio(temp, denominator))

-----------------------------------------------------------------------------
(* BasicCalculator.process_group *)

\* a basic measure is kept as the fraction num/den; the sites of a sequence
\* are kept as the count that _process_sequence returns for them
Fraction(n, d) == [num |-> n, den |-> d]

\* BasicMeasures.__itruediv__
itruediv(self, n) == Fraction(self.num, self.den * n)

\* BasicMeasures.__iadd__
iadd_basic(self, other) ==
    Fraction(self.num * other.den + other.num * self.den, self.den * other.den)

\* faulty variant: every sequence adds one to the divisor
AveragingStep_always_one(groupwise, seq_length) == 1

\* what a sequence adds to averaging_count
AveragingStep(groupwise, seq_length) == IF groupwise THEN seq_length ELSE 1

\* one turn of the loop of process_group over the sequences of the group
process_group_sequence ==
    /\ pc = "group"
    /\ SID < Len(input_data.group_map[GID])
    /\ LET current_seq == input_data.group_map[GID][SID + 1]
           seq_length == current_seq.seq_len
           counted == Fraction(current_seq.count, 1)
           results_ == IF ~opt.groupwise THEN itruediv(counted, seq_length)
                       ELSE counted
       IN  /\ results' = results_
           /\ averaging_count' = averaging_count + AveragingStep(opt.groupwise, seq_length)
           /\ group_results' = IF group_results = NoResults THEN results_
                               ELSE iadd_basic(group_results, results_)
    /\ SID' = SID + 1
    /\ UNCHANGED <<pc, opt, length, sorted_sites, sites, seq, files, site_file,
                   basic_measures, performance_measures, GID, database_results,
                   groups_n, ofile, input_data>>

\* after the loop: the division by averaging_count, seq_n and the return to
\* PerformanceCalculator.process_group
process_group_return ==
    /\ pc = "group"
    /\ SID = Len(input_data.group_map[GID])
    /\ group_results' = itruediv(group_results, averaging_count)
    /\ basic_measures' = [value |-> group_results',
                          seq_n |-> Len(input_data.group_map[GID])]
    /\ pc' = "returned"
    /\ UNCHANGED <<opt, length, sorted_sites, sites, seq, results, files,
                   site_file, performance_measures, GID, SID, averaging_count,
                   database_results, groups_n, ofile, input_data>>

-----------------------------------------------------------------------------
(* DataProcessor *)

\* the measures of the table: [x.var_name for x in name_map], two of them
attr_names == <<"rc2", "sp2">>

AttrNames == {attr_names[i] : i \in 1..Len(attr_names)}

\* a value of a measure of a group: NaN or a number of units
GroupValues == {NaN} \cup {[nan |-> FALSE, num |-> v, den |-> 1] : v \in 0..MaxValue}

\* DataProcessor.__init__: database_results = PerformanceMeasures(...), the
\* sum of every measure and the count of the groups that define it are zero
DatabaseResults ==
    [value |-> [name \in AttrNames |-> [nan |-> FALSE, num |-> 0, den |-> 1]],
     count |-> [name \in AttrNames |-> 0]]

get_count(results_, name) == results_.count[name]

\* PerformanceMeasures.__iadd__: a simple sum per measure and a count of the
\* groups where the measure is defined
iadd(self, other) ==
    [value |-> [name \in AttrNames |->
                   IF other[name].nan THEN self.value[name]
                   ELSE [nan |-> FALSE,
                         num |-> self.value[name].num * other[name].den
                                    + other[name].num * self.value[name].den,
                         den |-> self.value[name].den * other[name].den]],
     count |-> [name \in AttrNames |->
                   IF other[name].nan THEN self.count[name]
                   ELSE self.count[name] + 1]]

Raised == [raised |-> TRUE]

\* value / n of Python: ZeroDivisionError for n = 0
Divide(value, n) ==
    IF n = 0 THEN Raised
    ELSE [nan |-> FALSE, num |-> value.num, den |-> value.den * n]

\* faulty variant: na-as-zero mode divides by the count of the defined
FinalValue_divides_by_count(results_, attr_name, na_zeros, groups_n_) ==
    LET value == get_value(results_.value, attr_name) IN
    IF ~na_zeros
    THEN IF ~value.nan
         THEN IF groups_n_ # 0 THEN Divide(value, get_count(results_, attr_name))
              ELSE value
         ELSE value
    ELSE IF value.nan THEN [nan |-> FALSE, num |-> 0, den |-> 1]
         ELSE IF groups_n_ # 0 THEN Divide(value, get_count(results_, attr_name))
              ELSE value

\* the body of the loop of _produce_final_string
FinalValue(results_, attr_name, na_zeros, groups_n_) ==
    LET value == get_value(results_.value, attr_name) IN
    IF ~na_zeros
    THEN IF ~value.nan
         THEN IF groups_n_ # 0 THEN Divide(value, get_count(results_, attr_name))
              ELSE value
         ELSE value
    ELSE IF value.nan THEN [nan |-> FALSE, num |-> 0, den |-> 1]
         ELSE IF groups_n_ # 0 THEN Divide(value, groups_n_) ELSE value

\* _produce_final_string: the row, or the exception of a division
_produce_final_string(results_, na_zeros, groups_n_) ==
    LET values == [name \in AttrNames |-> FinalValue(results_, name, na_zeros, groups_n_)]
    IN  IF \E name \in AttrNames : values[name] = Raised THEN Raised
        ELSE [kind |-> "final", label |-> IF groups_n_ # 0 THEN "Average" ELSE "",
              values |-> values]

\* process: the output file is opened and the header is written
process_header ==
    /\ pc = "start"
    /\ ofile' = <<[kind |-> "header"]>>
    /\ pc' = IF opt.group_map THEN "groups" ELSE "ungrouped"
    /\ UNCHANGED <<opt, length, sorted_sites, sites, seq, results, files,
                   site_file, basic_measures, performance_measures, GID, SID,
                   group_results, averaging_count, database_results, groups_n,
                   input_data>>

\* one turn of the loop over the groups, the measures of the group being
\* what performance_calculator.process_group returns
process_group_row ==
    /\ pc = "groups"
    /\ GID < Len(input_data.group_map)
    /\ \E measures \in [AttrNames -> GroupValues] :
          /\ performance_measures' = measures
          /\ ofile' = Append(ofile, [kind |-> "group", GID |-> GID + 1, values |-> measures])
          /\ database_results' = iadd(database_results, measures)
    /\ GID' = GID + 1
    /\ UNCHANGED <<pc, opt, length, sorted_sites, sites, seq, results, files,
                   site_file, basic_measures, SID, group_results,
                   averaging_count, groups_n, input_data>>

\* after the loop: the divider and the number of groups
process_groups_end ==
    /\ pc = "groups"
    /\ GID = Len(input_data.group_map)
    /\ ofile' = IF ~opt.clean THEN Append(ofile, [kind |-> "divider"]) ELSE ofile
    /\ groups_n' = Len(input_data.group_map)
    /\ pc' = "final"
    /\ UNCHANGED <<opt, length, sorted_sites, sites, seq, results, files,
                   site_file, basic_measures, performance_measures, GID, SID,
                   group_results, averaging_count, database_results,
                   input_data>>

\* no group mapping: the results of the group '' are the database results
process_ungrouped ==
    /\ pc = "ungrouped"
    /\ \E measures \in [AttrNames -> GroupValues] :
          /\ performance_measures' = measures
          /\ database_results' = [DatabaseResults EXCEPT !.value = measures]
    /\ groups_n' = 0
    /\ pc' = "final"
    /\ UNCHANGED <<opt, length, sorted_sites, sites, seq, results, files,
                   site_file, basic_measures, GID, SID, group_results,
                   averaging_count, ofile, input_data>>

\* the final row
process_final ==
    /\ pc = "final"
    /\ LET final_string == _produce_final_string(database_results, opt.na_zeros, groups_n)
       IN  IF (~opt.clean) \/ groups_n = 0
           THEN IF final_string = Raised
                THEN pc' = "raised" /\ ofile' = ofile
                ELSE pc' = "done" /\ ofile' = Append(ofile, final_string)
           ELSE pc' = "done" /\ ofile' = ofile
    /\ UNCHANGED <<opt, length, sorted_sites, sites, seq, results, files,
                   site_file, basic_measures, performance_measures, GID, SID,
                   group_results, averaging_count, database_results, groups_n,
                   input_data>>

-----------------------------------------------------------------------------
(* DataProcessor.process on the sequences of the groups *)

\* BasicBooleanMeasures.__iadd__: the counts are added field by field
iadd_measures(self, other) ==
    [pp |-> self.pp + other.pp,
     pp_ |-> <<self.pp_[1] + other.pp_[1], self.pp_[2] + other.pp_[2]>>,
     pa |-> self.pa + other.pa, ap |-> self.ap + other.ap, aa |-> self.aa + other.aa,
     site_m |-> <<self.site_m[1] + other.site_m[1], self.site_m[2] + other.site_m[2]>>,
     site_nm |-> <<self.site_nm[1] + other.site_nm[1], self.site_nm[2] + other.site_nm[2]>>,
     site_len |-> <<self.site_len[1] + other.site_len[1],
                    self.site_len[2] + other.site_len[2]>>]

\* the loop over the groups enters process_group of the next group
process_group_begin ==
    /\ pc = "groups"
    /\ GID < Len(input_data.group_map)
    /\ GID' = GID + 1
    /\ SID' = 0
    /\ group_results' = NoResults
    /\ averaging_count' = 0
    /\ pc' = "group"
    /\ UNCHANGED <<opt, length, sorted_sites, sites, seq, results, files,
                   site_file, basic_measures, performance_measures,
                   database_results, groups_n, ofile, input_data>>

\* the loop over the sequences: CurrentSequence(GID, SID, seq_length, sites)
\* is handed to _process_sequence
process_sequence_begin ==
    /\ pc = "group"
    /\ SID < Len(input_data.group_map[GID])
    /\ LET current_seq == input_data.group_map[GID][SID + 1]
       IN  /\ length' = current_seq.seq_len
           /\ sorted_sites' = current_seq.sites
           /\ sites' = current_seq.sites
    /\ seq' = <<>>
    /\ results' = NoResults
    /\ pc' = "resolved"
    /\ UNCHANGED <<opt, files, site_file, basic_measures, performance_measures,
                   GID, SID, group_results, averaging_count, database_results,
                   groups_n, ofile, input_data>>

\* _process_sequence returns get_results() and the loop accumulates them;
\* under groupwise averaging the counts are not divided by the length
process_sequence_end ==
    /\ pc = "written"
    /\ opt.groupwise
    /\ averaging_count' = averaging_count + AveragingStep(opt.groupwise, length)
    /\ group_results' = IF group_results = NoResults THEN results
                        ELSE iadd_measures(group_results, results)
    /\ SID' = SID + 1
    /\ pc' = "group"
    /\ UNCHANGED <<opt, length, sorted_sites, sites, seq, results, files,
                   site_file, basic_measures, performance_measures, GID,
                   database_results, groups_n, ofile, input_data>>

\* after the sequences: the group's basic measures (the sums, to be read
\* over averaging_count), its measures (quotients of two sums), its row and
\* its addition to the database results
process_group_end ==
    /\ pc = "group"
    /\ SID = Len(input_data.group_map[GID])
    /\ basic_measures' = [sums |-> group_results, averaging_count |-> averaging_count,
                          seq_n |-> Len(input_data.group_map[GID])]
    /\ LET bm == group_results
           measures == [name \in AttrNames |->
                           IF name = "rc2" THEN Ratio(bm.pp_[1], bm.pp_[1] + bm.pa)
                           ELSE Ratio(bm.aa, bm.aa + bm.ap)]
       IN  /\ performance_measures' = measures
           /\ ofile' = Append(ofile, [kind |-> "group", GID |-> GID, values |-> measures])
           /\ database_results' = iadd(database_results, measures)
    /\ pc' = "groups"
    /\ UNCHANGED <<opt, length, sorted_sites, sites, seq, results, files,
                   site_file, GID, SID, group_results, averaging_count,
                   groups_n, input_data>>

\* before process has started with the groups
InitGroup ==
    /\ GID = 0
    /\ SID = 0
    /\ group_results = NoResults
    /\ averaging_count = 0
    /\ database_results = NoResults
    /\ groups_n = 0
    /\ ofile = <<>>
    /\ input_data = NoResults

-----------------------------------------------------------------------------
(* The resolver on the sorted site lists of one sequence *)

InitResolve ==
    /\ pc = "sorted"
    /\ length = MaxShortLen
    /\ \E p1 \in Policies, p2 \in Policies, names \in BOOLEAN :
          \* validate_logic: named sites are not compatible with merging
          /\ names => (p1 # "merge" /\ p2 # "merge")
          /\ opt = [DefaultOpt EXCEPT !.anno1_resolve_overlaps = p1,
                                      !.anno2_resolve_overlaps = p2,
                                      !.site_names = names]
          /\ \E ss \in SortedListPairs(MaxShortLen, MaxSites) :
                sorted_sites = IF names THEN <<WithNames(ss[1]), WithNames(ss[2])>>
                               ELSE ss
    /\ sites = sorted_sites
    /\ seq = <<>>
    /\ results = NoResults
    /\ files = <<>>
    /\ site_file = <<>>
    /\ basic_measures = NoResults
    /\ performance_measures = NoResults
    /\ InitGroup

NextResolve == _resolve_overlaps_within_annotations

SpecResolve == InitResolve /\ [][NextResolve]_vars

-----------------------------------------------------------------------------
(* One sequence through _process_sequence *)

\* the state after parse_annotations, before the sequence is processed
InitRun(o, len, ss) ==
    /\ pc = "resolved"
    /\ opt = o
    /\ length = len
    /\ sorted_sites = ss
    /\ sites = ss
    /\ seq = <<>>
    /\ results = NoResults
    /\ files = [type_ \in OpenTypes(o) |-> <<>>]
    /\ site_file = <<>>
    /\ basic_measures = NoResults
    /\ performance_measures = NoResults
    /\ InitGroup

\* Boolean mode, symbol-wise: gross counting off and on, the four output
\* annotation files open, the detailed and the site statistics files not
InitBoolean ==
    \E gross \in BOOLEAN, len \in 1..MaxLen :
        \E ss \in SortedListPairs(len, MaxSites) :
            InitRun([DefaultOpt EXCEPT !.gross = gross, !.output_files = BooleanTypes],
                    len, ss)

\* Enrichment mode: validate_logic allows neither gross counting nor the
\* resolver, the site lists are sorted only; the six output annotation
\* files are open
InitEnrichment ==
    \E n \in 1..2, len \in 1..MaxLen :
        \E ss \in SortedListPairs(len, MaxSites) :
            InitRun([DefaultOpt EXCEPT !.enrichment_count = n,
                                       !.output_files = DerivedTypes],
                    len, ss)

Init == InitBoolean \/ InitEnrichment

\* Enrichment mode with many sites on one symbol: the input of
\* _estimate_required_precison is the two numbers of sites
InitPrecision ==
    \E n1 \in 0..MaxSiteLists, n2 \in 0..MaxSiteLists :
        InitRun([DefaultOpt EXCEPT !.enrichment_count = 1], 1,
                <<[k \in 1..n1 |-> <<1, 1>>], [k \in 1..n2 |-> <<1, 1>>]>>)

NextPrecision == Construct

SpecPrecision == InitPrecision /\ [][NextPrecision]_vars

\* write_to_files of the enrichment calculator, called once it is
\* constructed: _process_sequence calls it after calculate_residue_wise,
\* which raises in that mode
write_to_files_enrichment ==
    /\ opt.enrichment_count > 0
    /\ WriteToFiles("constructed")

Next ==
    \/ Construct
    \/ calculate_residue_wise
    \/ calculate_site_wise
    \/ write_to_files
    \/ write_to_files_enrichment

Spec == Init /\ [][Next]_vars

\* Boolean mode, site-wise: the overlap criteria and the site statistics file
OverlapParts == {<<0, 1>>, <<1, 2>>, <<1, 1>>}

InitMatch ==
    \E apply \in OverlapApply, symbols \in 1..2, part \in OverlapParts,
       out \in {{}, {"site"}} :
        \* the statistics file is open in the pairwise runs
        /\ apply # "patched" => out = {"site"}
        /\ \E ss \in SortedListPairs(MaxShortLen, MaxSites) :
              InitRun([DefaultOpt EXCEPT !.overlap_apply = apply,
                                         !.overlap_symbols = symbols,
                                         !.overlap_part = part,
                                         !.output_files = out],
                      MaxShortLen, ss)

NextMatch ==
    \/ Construct
    \/ calculate_residue_wise
    \/ calculate_site_wise
    \/ write_to_files

SpecMatch == InitMatch /\ [][NextMatch]_vars

\* Boolean mode, site-wise, matching by the shortest or the longest site of
\* a pair under each predictor nature; neither the detailed nor the site statistics file is open
InitNature ==
    \E nature \in PredictorNature, apply \in {"shortest", "longest"},
       symbols \in 1..2, part \in OverlapParts :
        \E ss \in SortedListPairs(MaxShortLen, MaxSites) :
            InitRun([DefaultOpt EXCEPT !.predictor_nature = nature,
                                       !.overlap_apply = apply,
                                       !.overlap_symbols = symbols,
                                       !.overlap_part = part,
                                       !.output_files = {}],
                    MaxShortLen, ss)

NextNature ==
    \/ Construct
    \/ calculate_residue_wise
    \/ calculate_site_wise

SpecNature == InitNature /\ [][NextNature]_vars

-----------------------------------------------------------------------------
(* The measures of one group *)

InitPerf ==
    /\ pc = "basic"
    /\ opt = DefaultOpt
    /\ length = MaxLen
    /\ sorted_sites = <<<<>>, <<>>>>
    /\ sites = sorted_sites
    /\ seq = <<>>
    /\ results = NoResults
    /\ files = <<>>
    /\ site_file = <<>>
    /\ \E pp \in 0..MaxCount, pa \in 0..MaxCount, ap \in 0..MaxCount, aa \in 0..MaxCount :
          basic_measures = [BasicBooleanMeasures EXCEPT
                               !.pp = pp, !.pp_ = <<pp, pp>>, !.pa = pa, !.ap = ap, !.aa = aa]
    /\ performance_measures = NoResults
    /\ InitGroup

NextPerf == _calc_mcc

SpecPerf == InitPerf /\ [][NextPerf]_vars

\* the counts of one group in Boolean mode: an annotation has sites exactly
\* when it has symbols, and a matched site shares a symbol
InitMeasures ==
    /\ pc = name_map[1]
    /\ opt = DefaultOpt
    /\ length = MaxLen
    /\ sorted_sites = <<<<>>, <<>>>>
    /\ sites = sorted_sites
    /\ seq = <<>>
    /\ results = NoResults
    /\ files = <<>>
    /\ site_file = <<>>
    /\ \E pp \in 0..MaxCount, pa \in 0..MaxCount, ap \in 0..MaxCount, aa \in 0..MaxCount,
          m1 \in 0..MaxSiteCount, m2 \in 0..MaxSiteCount,
          nm1 \in 0..MaxSiteCount, nm2 \in 0..MaxSiteCount :
          /\ (m1 + nm1 > 0) <=> (pp + pa > 0)
          /\ (m2 + nm2 > 0) <=> (pp + ap > 0)
          /\ (m1 > 0 \/ m2 > 0) => pp > 0
          /\ basic_measures = [BasicBooleanMeasures EXCEPT
                                  !.pp = pp, !.pp_ = <<pp, pp>>, !.pa = pa,
                                  !.ap = ap, !.aa = aa,
                                  !.site_m = <<m1, m2>>, !.site_nm = <<nm1, nm2>>]
    /\ performance_measures = PerformanceMeasures
    /\ InitGroup

NextMeasures ==
    \/ _calc_rc2
    \/ _calc_pr2
    \/ _calc_sp2
    \/ _calc_npv2
    \/ _calc_in2
    \/ _calc_mk2
    \/ _calc_pc
    \/ _calc_f1
    \/ _calc_site_rc2
    \/ _calc_site_pr2
    \/ _calc_site_pc2
    \/ _calc_site_f1
    \/ _calc_site_pcv

SpecMeasures == InitMeasures /\ [][NextMeasures]_vars

\* the database of a run of process: the groups of the mapping, or the one
\* group '' of all sequences; the sequences are not looked at
InitDatabase ==
    /\ pc = "start"
    /\ \E grouped \in BOOLEAN, na_zeros \in BOOLEAN, clean \in BOOLEAN :
          /\ opt = [DefaultOpt EXCEPT !.group_map = grouped, !.na_zeros = na_zeros,
                                      !.clean = clean]
          /\ \E n \in 1..MaxGroups :
                /\ ~grouped => n = 1
                /\ input_data = [group_map |->
                                    [g \in 1..n |-> <<[seq_len |-> 1, count |-> 0]>>]]
    /\ length = 1
    /\ sorted_sites = <<<<>>, <<>>>>
    /\ sites = sorted_sites
    /\ seq = <<>>
    /\ results = NoResults
    /\ files = <<>>
    /\ site_file = <<>>
    /\ basic_measures = NoResults
    /\ performance_measures = NoResults
    /\ GID = 0
    /\ SID = 0
    /\ group_results = NoResults
    /\ averaging_count = 0
    /\ database_results = DatabaseResults
    /\ groups_n = 0
    /\ ofile = <<>>

NextDatabase ==
    \/ process_header
    \/ process_group_row
    \/ process_groups_end
    \/ process_ungrouped
    \/ process_final

SpecDatabase == InitDatabase /\ [][NextDatabase]_vars

\* the sequences a group can have: a length and a count of its symbols
Sequences_(k) ==
    [1..k -> {[seq_len |-> l, count |-> c] : l \in 1..MaxShortLen, c \in 0..MaxShortLen}]

\* process_group is called for a group of one to MaxSeqs sequences
InitProcessGroup ==
    /\ pc = "group"
    /\ \E groupwise \in BOOLEAN : opt = [DefaultOpt EXCEPT !.groupwise = groupwise]
    /\ \E k \in 1..MaxSeqs : \E group \in Sequences_(k) :
          /\ \A i \in 1..k : group[i].count <= group[i].seq_len
          /\ input_data = [group_map |-> <<group>>]
    /\ length = 1
    /\ sorted_sites = <<<<>>, <<>>>>
    /\ sites = sorted_sites
    /\ seq = <<>>
    /\ results = NoResults
    /\ files = <<>>
    /\ site_file = <<>>
    /\ basic_measures = NoResults
    /\ performance_measures = NoResults
    /\ GID = 1
    /\ SID = 0
    /\ group_results = NoResults
    /\ averaging_count = 0
    /\ database_results = NoResults
    /\ groups_n = 0
    /\ ofile = <<>>

NextProcessGroup ==
    \/ process_group_sequence
    \/ process_group_return

SpecProcessGroup == InitProcessGroup /\ [][NextProcessGroup]_vars

\* the sequences of a grouped run: one without sites, one with a site in
\* each annotation
RunSequences ==
    {[seq_len |-> 1, sites |-> <<<<>>, <<>>>>],
     [seq_len |-> 2, sites |-> <<(<<(<<1, 2>>)>>), (<<(<<2, 2>>)>>)>>]}

\* a grouped run under groupwise averaging: Boolean mode (pairwise or patched,
\* with or without the site statistics file) or enrichment mode, one to
\* MaxGroups groups of one to MaxSeqs sequences
InitProcess ==
    /\ pc = "start"
    /\ \E n \in 0..1, apply \in {"shortest", "patched"}, site \in BOOLEAN,
          clean \in BOOLEAN :
          /\ n > 0 => (apply = "shortest" /\ ~site)
          /\ opt = [DefaultOpt EXCEPT !.group_map = TRUE, !.groupwise = TRUE,
                                      !.clean = clean, !.enrichment_count = n,
                                      !.overlap_apply = apply,
                                      !.output_files = IF site THEN {"union", "site"}
                                                       ELSE {"union"}]
          /\ files = [type_ \in OpenTypes(opt) |-> <<>>]
    /\ \E g \in 1..MaxGroups, current_seq \in RunSequences :
          \E sizes \in [1..g -> 1..MaxSeqs] :
             input_data = [group_map |-> [i \in 1..g |-> [k \in 1..sizes[i] |-> current_seq]]]
    /\ length = 1
    /\ sorted_sites = <<<<>>, <<>>>>
    /\ sites = sorted_sites
    /\ seq = <<>>
    /\ results = NoResults
    /\ site_file = <<>>
    /\ basic_measures = NoResults
    /\ performance_measures = NoResults
    /\ GID = 0
    /\ SID = 0
    /\ group_results = NoResults
    /\ averaging_count = 0
    /\ database_results = DatabaseResults
    /\ groups_n = 0
    /\ ofile = <<>>

NextProcess ==
    \/ process_header
    \/ process_group_begin
    \/ process_sequence_begin
    \/ Construct
    \/ calculate_residue_wise
    \/ calculate_site_wise
    \/ write_to_files
    \/ process_sequence_end
    \/ process_group_end
    \/ process_groups_end
    \/ process_final

SpecProcess == InitProcess /\ [][NextProcess]_vars

\* the run is one thread that takes its next step whenever it has one
FairProcess == InitProcess /\ [][NextProcess]_vars /\ WF_vars(NextProcess)

-----------------------------------------------------------------------------
(* Properties *)

Boolean == opt.enrichment_count = 0
Counted == pc \in {"residue_wise", "site_wise", "written"}
Matched == pc \in {"site_wise", "written"}

\* the positions of the sequence covered by annotation i
In(i) == {p \in 1..length : \E k \in 1..Len(sites[i]) : Covers(sites[i][k], p)}

\* two sites of the list overlap
HasOverlap(list) == ~NonOverlapping(list)

\* C1 (as stated): in Boolean mode, with gross counting off or on, the counts
\* of calculate_residue_wise satisfy pp + pa + ap + aa = L.
C1_SumIsLength ==
    (Boolean /\ Counted) =>
        results.pp + results.pa + results.ap + results.aa = length

\* C1 (amended): in Boolean mode with gross counting off, the counts of
\* calculate_residue_wise satisfy pp + pa + ap + aa = L, whatever the
\* overlaps among the sites of an annotation.
C1_SumIsLengthNotGross ==
    (Boolean /\ Counted /\ ~opt.gross) =>
        results.pp + results.pa + results.ap + results.aa = length

C1_Witness ==
    /\ Boolean /\ pc = "residue_wise" /\ ~opt.gross
    /\ HasOverlap(sites[1])
    /\ results.pp > 0 /\ results.pa > 0 /\ results.ap > 0 /\ results.aa > 0

\* C2: under each overlap_apply policy, after calculate_site_wise has run,
\* site_m[i] + site_nm[i] is the number of sites of annotation i.
C2_EverySiteCountedOnce ==
    (Boolean /\ Matched) =>
        \A i \in 1..2 : results.site_m[i] + results.site_nm[i] = Len(sites[i])

C2_Witness ==
    /\ pc = "site_wise" /\ opt.overlap_apply = "patched"
    /\ results.site_m[1] = 1 /\ results.site_nm[1] = 1
    /\ results.site_m[2] = 1 /\ results.site_nm[2] = 0

\* C3: the output of 'merge' is sorted by begin, pairwise non-overlapping,
\* and covers exactly the positions the input sites cover.
C3_MergeKeepsCoverage ==
    pc = "resolved" =>
        \A i \in 1..2 : Policy(opt, i) = "merge" =>
            /\ IsSortedByBegin(sites[i])
            /\ NonOverlapping(sites[i])
            /\ Covered(sites[i]) = Covered(sorted_sites[i])

\* C4: under 'first' a site is kept only if its begin is greater than the
\* end of the previously kept site, so the kept sites do not overlap.
C4_FirstKeepsDisjointSites ==
    pc = "resolved" =>
        \A i \in 1..2 : Policy(opt, i) = "first" =>
            /\ \A k \in 2..Len(sites[i]) : sites[i][k][1] > sites[i][k - 1][2]
            /\ NonOverlapping(sites[i])

\* sites a..b of the list are one run: each begins no later than the site
\* before it ends
OneRun(list, a, b) == \A k \in a..(b - 1) : list[k + 1][1] <= list[k][2]
SameRun(list, a, b) == OneRun(list, Min(a, b), Max(a, b))

\* the sites of the list at the indices I, in the order of the list
Selected(list, I) ==
    LET n == Cardinality(I)
        f == CHOOSE g \in [1..n -> I] : \A a \in 1..n : \A b \in 1..n : a < b => g[a] < g[b]
    IN  [k \in 1..n |-> list[f[k]]]

\* C5 (as stated): under 'last' the site kept from each maximal run of
\* overlapping sites is the site of the run with the greatest end.
C5_LastKeepsGreatestEnd ==
    pc = "resolved" =>
        \A i \in 1..2 : Policy(opt, i) = "last" =>
            \A a \in 1..Len(sorted_sites[i]) :
                (\E k \in 1..Len(sites[i]) : sites[i][k] = sorted_sites[i][a]) =>
                    \A b \in 1..Len(sorted_sites[i]) :
                        SameRun(sorted_sites[i], a, b) =>
                            sorted_sites[i][b][2] <= sorted_sites[i][a][2]

\* C5 (amended): under 'last' the site kept from each maximal run of sites,
\* each beginning no later than the site before it ends, is the last site of
\* the run in the order of the list, and no other site is kept.
C5_LastKeepsLastOfRun ==
    pc = "resolved" =>
        \A i \in 1..2 : Policy(opt, i) = "last" =>
            LET list == sorted_sites[i]
                ends == {a \in 1..Len(list) : a = Len(list) \/ list[a + 1][1] > list[a][2]}
            IN  sites[i] = Selected(list, ends)

C5_Witness ==
    /\ pc = "resolved" /\ Policy(opt, 1) = "last"
    /\ sorted_sites[1] = <<<<1, 3>>, <<2, 2>>, <<3, 3>>>>
    /\ sites[1] = <<<<2, 2>>, <<3, 3>>>>

\* out is a subsequence of list
IsSubsequence(out, list) ==
    /\ Len(out) <= Len(list)
    /\ \E f \in [1..Len(out) -> 1..Len(list)] :
          /\ \A a \in 1..Len(out) : \A b \in 1..Len(out) : a < b => f[a] < f[b]
          /\ \A k \in 1..Len(out) : out[k] = list[f[k]]

\* C6: the output of 'first' and of 'last' is a subsequence of the input:
\* no longer, every site an input site unchanged, the order preserved.
C6_KeptSitesAreInputSites ==
    pc = "resolved" =>
        \A i \in 1..2 : Policy(opt, i) \in {"first", "last"} =>
            IsSubsequence(sites[i], sorted_sites[i])

C6_Witness ==
    /\ pc = "resolved" /\ Policy(opt, 1) = "last" /\ opt.site_names
    /\ Len(sorted_sites[1]) = 3 /\ Len(sites[1]) = 2
    /\ HasOverlap(sorted_sites[1])

\* C7: after the Boolean classification a position is 'both' (3) iff both
\* annotations cover it, 'only-1' (1) iff annotation 1 alone does, 'only-2'
\* (2) iff annotation 2 alone does, 'neither' (0) otherwise; without gross
\* counting pp, pa, ap, aa are the numbers of such positions.
C7_CategoryIsCoverage ==
    /\ (Boolean /\ pc \in {"constructed", "residue_wise", "site_wise", "written"}) =>
          \A p \in 1..length :
              /\ seq[p - 1] = 3 <=> (p \in In(1) /\ p \in In(2))
              /\ seq[p - 1] = 1 <=> (p \in In(1) /\ p \notin In(2))
              /\ seq[p - 1] = 2 <=> (p \notin In(1) /\ p \in In(2))
              /\ seq[p - 1] = 0 <=> (p \notin In(1) /\ p \notin In(2))
    /\ (Boolean /\ Counted /\ ~opt.gross) =>
          /\ results.pp = Cardinality(In(1) \cap In(2))
          /\ results.pa = Cardinality(In(1) \ In(2))
          /\ results.ap = Cardinality(In(2) \ In(1))
          /\ results.aa = length - Cardinality(In(1) \cup In(2))

\* the example of the specification, on a sequence of length 4
C7_Witness ==
    /\ Boolean /\ pc = "residue_wise" /\ ~opt.gross /\ length = 4
    /\ sites = <<(<<(<<1, 2>>), (<<2, 2>>)>>), (<<(<<2, 3>>)>>)>>
    /\ seq[0] = 1 /\ seq[1] = 3 /\ seq[2] = 2 /\ seq[3] = 0
    /\ results.pp = 1 /\ results.pa = 1 /\ results.ap = 1 /\ results.aa = 1

\* the positions that satisfy the predicate of an output annotation
Satisfying(type_) == {p \in 1..length : InType(opt, seq, type_, p - 1)}

\* the rows are the maximal runs of the set of positions
AreMaximalRuns(rows, positions) ==
    /\ \A k \in 1..Len(rows) : 1 <= rows[k][1] /\ rows[k][1] <= rows[k][2] /\ rows[k][2] <= length
    /\ \A k \in 1..(Len(rows) - 1) : rows[k][2] + 1 < rows[k + 1][1]
    /\ positions = {p \in 1..length : \E k \in 1..Len(rows) : Covers(rows[k], p)}

\* C8: for every output annotation the rows written by write_to_files are
\* the maximal runs of the positions that satisfy its predicate: 1-based,
\* inclusive, ascending, disjoint and not adjacent.
C8_RowsAreMaximalRuns ==
    pc = "written" =>
        \A type_ \in DOMAIN files : AreMaximalRuns(files[type_], Satisfying(type_))

\* two runs of the union, the second one up to the last position
C8_Witness ==
    /\ pc = "written" /\ Boolean /\ length = 4
    /\ files["union"] = <<(<<1, 1>>), (<<3, 4>>)>>
    /\ files["intersection"] = <<(<<4, 4>>)>>
    /\ files["complement2"] = <<(<<1, 1>>), (<<3, 3>>)>>
    /\ files["complement1"] = <<>>

\* the sufficiency test of the claim, for a site of annotation i and a
\* candidate, with neutral predictor nature
ClaimSufficient(site, site_) ==
    LET overlap == Cardinality({p \in 1..length : Covers(site, p) /\ Covers(site_, p)})
        len == site[2] - site[1] + 1
        len_ == site_[2] - site_[1] + 1
        effective == CASE opt.overlap_apply = "shortest" -> Min(len, len_)
                       [] opt.overlap_apply = "longest" -> Max(len, len_)
                       [] opt.overlap_apply = "current" -> len
    IN  /\ overlap >= opt.overlap_symbols
        /\ overlap * opt.overlap_part[2] >= opt.overlap_part[1] * effective

SufficientCandidates(i, k) ==
    {m \in 1..Len(sites[3 - i]) : ClaimSufficient(sites[i][k], sites[3 - i][m])}

\* the row of the site statistics file for site k of annotation i
RowOf(i, k) == site_file[IF i = 1 THEN k ELSE Len(sites[1]) + k]

\* C9: under shortest, longest and current a site is counted as matched iff
\* some site anywhere in the other annotation's list passes the sufficiency
\* test, and the partner reported is the first such site of the list.
C9_MatchedIffSufficientCandidate ==
    (Boolean /\ Matched /\ opt.overlap_apply \in {"shortest", "longest", "current"}) =>
        \A i \in 1..2 :
            /\ results.site_m[i] =
                  Cardinality({k \in 1..Len(sites[i]) : SufficientCandidates(i, k) # {}})
            /\ "site" \in opt.output_files =>
                  \A k \in 1..Len(sites[i]) :
                      LET found == SufficientCandidates(i, k) IN
                      IF found = {} THEN RowOf(i, k).partner = <<>>
                      ELSE RowOf(i, k).partner =
                              sites[3 - i][CHOOSE m \in found : \A n \in found : m <= n]

\* one site is matched with the second candidate, another is left
\* unmatched by the early exit
C9_Witness ==
    /\ pc = "site_wise" /\ "site" \in opt.output_files
    /\ opt.overlap_apply = "longest"
    /\ sites = <<(<<(<<2, 3>>)>>), (<<(<<1, 1>>), (<<2, 3>>)>>)>>
    /\ RowOf(1, 1).partner = <<2, 3>>
    /\ RowOf(2, 1).partner = <<>>
    /\ RowOf(2, 2).partner = <<2, 3>>

\* C10: mcc, when defined, is (pp*aa - ap*pa) / sqrt((pp+pa)(pp+ap)(aa+ap)(aa+pa)).
C10_MccFormula ==
    (pc = "measured" /\ ~performance_measures.mcc.nan) =>
        LET bm == basic_measures IN
        /\ performance_measures.mcc.numerator = bm.pp * bm.aa - bm.ap * bm.pa
        /\ performance_measures.mcc.radicand =
              (bm.pp + bm.pa) * (bm.pp + bm.ap) * (bm.aa + bm.ap) * (bm.aa + bm.pa)

\* the product under the square root of _calc_mcc
Radicand(bm) ==
    (bm.pp + bm.pa) * (bm.pp + bm.ap) * (bm.aa + bm.ap) * (bm.aa + bm.pa)

\* C11: _calc_mcc sets mcc to NaN exactly when the product
\* (pp+pa)(pp+ap)(aa+ap)(aa+pa) is zero, and always sets a value.
C11_MccNaNIffZeroProduct ==
    pc = "measured" =>
        /\ performance_measures.mcc.nan <=> (Radicand(basic_measures) = 0)
        /\ ~performance_measures.mcc.nan =>
               performance_measures.mcc.radicand = Radicand(basic_measures)

\* an undefined mcc although symbols of two categories were counted
C11_Witness ==
    /\ pc = "measured"
    /\ performance_measures.mcc.nan
    /\ basic_measures.pp > 0 /\ basic_measures.ap > 0
    /\ basic_measures.pa = 0 /\ basic_measures.aa = 0

\* the denominator of each ratio measure
Denominator(name) ==
    LET bm == basic_measures IN
    CASE name = "rc2" -> bm.pp_[1] + bm.pa
      [] name = "pr2" -> bm.pp_[2] + bm.ap
      [] name = "sp2" -> bm.aa + bm.ap
      [] name = "npv2" -> bm.aa + bm.pa
      [] name = "pc" -> bm.pp_[2] + bm.ap + bm.pa
      [] name = "f1" -> 2 * bm.pp_[1] * bm.pp_[2] + bm.pp_[2] * bm.pa + bm.pp_[1] * bm.ap
      [] name = "site_rc2" -> bm.site_m[1] + bm.site_nm[1]
      [] name = "site_pr2" -> bm.site_m[2] + bm.site_nm[2]
      [] name = "site_pc2" -> bm.site_m[2] + bm.site_nm[2] + bm.site_nm[1]
      [] name = "site_f1" -> 2 * bm.site_m[1] * bm.site_m[2] + bm.site_nm[1] * bm.site_m[2]
                               + bm.site_nm[2] * bm.site_m[1]
      [] name = "site_pcv" -> bm.site_m[1] + bm.site_m[2] + bm.site_nm[1] + bm.site_nm[2]

RatioMeasures ==
    {"rc2", "pr2", "sp2", "npv2", "pc", "f1",
     "site_rc2", "site_pr2", "site_pc2", "site_f1", "site_pcv"}

\* C12: each ratio measure is NaN exactly when its denominator is zero, and
\* in2 and mk2 are NaN exactly when one of their two inputs is NaN.
C12_RatioNaNIffZeroDenominator ==
    pc = "done" =>
        LET pm == performance_measures IN
        /\ \A name \in RatioMeasures :
              /\ pm[name].nan <=> (Denominator(name) = 0)
              /\ ~pm[name].nan => pm[name].den = Denominator(name)
        /\ pm["in2"].nan <=> (pm["rc2"].nan \/ pm["sp2"].nan)
        /\ pm["mk2"].nan <=> (pm["pr2"].nan \/ pm["npv2"].nan)

\* a group whose first annotation is empty: recall is undefined, specificity
\* is not, informedness is undefined and markedness is defined
C12_Witness ==
    /\ pc = "done"
    /\ performance_measures["rc2"].nan
    /\ ~performance_measures["sp2"].nan
    /\ performance_measures["in2"].nan
    /\ ~performance_measures["mk2"].nan
    /\ performance_measures["site_rc2"].nan
    /\ ~performance_measures["site_pr2"].nan
    /\ performance_measures["site_f1"].nan

\* the rows of the groups in the output file
GroupRows == {i \in 1..Len(ofile) : ofile[i].kind = "group"}

\* the groups whose row shows a defined value of the measure
DefinedIn(name) == {i \in GroupRows : ~ofile[i].values[name].nan}

RECURSIVE SumOver(_, _)
SumOver(name, rows) ==
    IF rows = {} THEN 0
    ELSE LET i == CHOOSE j \in rows : TRUE
         IN  ofile[i].values[name].num + SumOver(name, rows \ {i})

FinalRows == {i \in 1..Len(ofile) : ofile[i].kind = "final"}

\* the value num/den is the quotient sum/n
IsQuotient(value, sum, n) == ~value.nan /\ value.num * n = sum * value.den

C13_AverageWhenWritten ==
    (pc = "done" /\ opt.group_map /\ ~opt.na_zeros /\ ~opt.clean) =>
        /\ FinalRows # {}
        /\ \A i \in FinalRows : \A name \in AttrNames :
              /\ DefinedIn(name) # {}
              /\ IsQuotient(ofile[i].values[name], SumOver(name, DefinedIn(name)),
                            Cardinality(DefinedIn(name)))

\* C14: in a grouped run with na_zeros the final row gives every measure as
\* the sum over all groups, an undefined value counting as zero, divided by
\* the number of groups.
C14_NaAsZeroAverage ==
    (pc \in {"done", "raised"} /\ opt.group_map /\ opt.na_zeros /\ ~opt.clean) =>
        /\ Cardinality(FinalRows) = 1
        /\ \A i \in FinalRows : \A name \in AttrNames :
              IsQuotient(ofile[i].values[name], SumOver(name, DefinedIn(name)),
                         Cardinality(GroupRows))

\* two groups, the measure undefined in the first and 2 in the second: the
\* final value is 2/2
C14_Witness ==
    /\ pc = "done" /\ opt.group_map /\ opt.na_zeros /\ ~opt.clean
    /\ Len(ofile) = 5
    /\ ofile[2].values["rc2"].nan
    /\ ~ofile[3].values["rc2"].nan
    /\ ofile[3].values["rc2"].num = 2
    /\ ofile[5].values["rc2"] = [nan |-> FALSE, num |-> 2, den |-> 2]

\* C15: without a group mapping every value of the final row is the value of
\* the single group, under either aggregation mode.
C15_UngroupedUnchanged ==
    (pc \in {"done", "raised"} /\ ~opt.group_map) =>
        /\ Cardinality(FinalRows) = 1
        /\ \A i \in FinalRows : \A name \in AttrNames :
              ofile[i].values[name] = performance_measures[name]

\* C15 in skip-undefined mode
C15_UngroupedUnchangedSkipUndefined ==
    (pc \in {"done", "raised"} /\ ~opt.group_map /\ ~opt.na_zeros) =>
        /\ Cardinality(FinalRows) = 1
        /\ \A i \in FinalRows : \A name \in AttrNames :
              ofile[i].values[name] = performance_measures[name]

\* the group that process_group was called for
Group == input_data.group_map[GID]

\* sum over i <= k of c_i / L_i, as a fraction
RECURSIVE SumOfRates(_)
SumOfRates(k) ==
    IF k = 0 THEN Fraction(0, 1)
    ELSE LET rest == SumOfRates(k - 1)
         IN  Fraction(rest.num * Group[k].seq_len + Group[k].count * rest.den,
                      rest.den * Group[k].seq_len)

SameFraction(a, b) == a.num * b.den = b.num * a.den

\* C16: process_group returns the mean of the rates c_i / L_i when groupwise
\* is off and the sum of the counts over the sum of the lengths when it is on,
\* with seq_n the number of the sequences.
C16_GroupAverage ==
    pc = "returned" =>
        LET k == Len(Group)
            rates == SumOfRates(k)
            counts == SumTo([i \in 1..k |-> Group[i].count], k)
            lengths == SumTo([i \in 1..k |-> Group[i].seq_len], k)
        IN  /\ basic_measures.seq_n = k
            /\ ~opt.groupwise =>
                  SameFraction(basic_measures.value, Fraction(rates.num, rates.den * k))
            /\ opt.groupwise =>
                  SameFraction(basic_measures.value, Fraction(counts, lengths))

\* two sequences of different lengths, where the two averages differ:
\* 1 of 1 and 1 of 3 give 2/3 as the mean of the rates
C16_Witness ==
    /\ pc = "returned"
    /\ ~opt.groupwise
    /\ Len(Group) = 2
    /\ Group[1] = [seq_len |-> 1, count |-> 1]
    /\ Group[2] = [seq_len |-> 3, count |-> 1]
    /\ SameFraction(basic_measures.value, Fraction(2, 3))

\* the same group under groupwise averaging: 2 of 4
C16_WitnessGroupwise ==
    /\ pc = "returned"
    /\ opt.groupwise
    /\ Len(Group) = 2
    /\ Group[1] = [seq_len |-> 1, count |-> 1]
    /\ Group[2] = [seq_len |-> 3, count |-> 1]
    /\ SameFraction(basic_measures.value, Fraction(1, 2))

\* the positions covered by the rows of an output annotation file
Written(type_) ==
    {p \in 1..length : \E k \in 1..Len(files[type_]) : Covers(files[type_][k], p)}

\* C17: in enrichment mode with n >= 1 no position satisfies both _in_re1
\* and _in_re2, and the rows of the two files share no position.
C17_RelativeEnrichmentExclusive ==
    (opt.enrichment_count >= 1 /\ pc \in {"constructed", "written"}) =>
        /\ \A idx \in 0..(length - 1) :
              ~(/\ Enrichment_in_re1(opt.enrichment_count, seq, idx)
                /\ Enrichment_in_re2(opt.enrichment_count, seq, idx))
        /\ pc = "written" => Written("re1") \cap Written("re2") = {}

\* a position occurring twice in the first and once in the second annotation
\* beside one occurring in the second only, both files written
C17_Witness ==
    /\ opt.enrichment_count = 1 /\ pc = "written" /\ length = 2
    /\ seq[1][0] = 2 /\ seq[2][0] = 1
    /\ seq[1][1] = 0 /\ seq[2][1] = 1
    /\ Written("re1") = {1}
    /\ Written("re2") = {2}

\* the statistics file is open and calculate_site_wise was called
SiteFileRun == "site" \in opt.output_files /\ pc \in {"site_wise", "written", "raised"}

\* C18: with the site statistics file open calculate_site_wise ends without
\* an exception and has written one row for every site that site_difference
\* does not exclude (none is excluded by 'all'), under every overlap_apply.
C18_OneRowPerSite ==
    (SiteFileRun /\ opt.site_difference = "all") =>
        /\ pc # "raised"
        /\ Len(site_file) = Len(sites[1]) + Len(sites[2])

\* C18 for the three pairwise policies
C18_OneRowPerSitePairwise ==
    (SiteFileRun /\ opt.site_difference = "all" /\ opt.overlap_apply # "patched") =>
        /\ pc # "raised"
        /\ Len(site_file) = Len(sites[1]) + Len(sites[2])

\* in patched mode with the file open the method ends only when there is no
\* site at all
C18_PatchedRaises ==
    (SiteFileRun /\ opt.site_difference = "all" /\ opt.overlap_apply = "patched") =>
        (pc = "raised" <=> Len(sites[1]) + Len(sites[2]) > 0)

\* max(0, min(site.end, cand.end) - max(site.begin, cand.begin) + 1)
ClaimedOverlap(site, cand) ==
    Max(0, Min(site[2], cand[2]) - Max(site[1], cand[1]) + 1)

\* the positions that two sites share
SharedPositions(site, cand) == {p \in 1..length : Covers(site, p) /\ Covers(cand, p)}

\* C20: with neutral predictor nature _get_overlapped_symbols gives, for
\* every site and every site of the other annotation, the claimed expression,
\* which is the number of the positions they share; so do the rows written.
C20_NeutralOverlapIsIntersection ==
    (opt.predictor_nature = "neutral" /\ pc \in {"site_wise", "written"}) =>
        /\ \A i \in 1..2 : \A k \in 1..Len(sites[i]) : \A m \in 1..Len(sites[3 - i]) :
              LET site == sites[i][k]
                  cand == sites[3 - i][m]
              IN  /\ _get_overlapped_symbols(opt, site, cand, i) = ClaimedOverlap(site, cand)
                  /\ ClaimedOverlap(site, cand) = Cardinality(SharedPositions(site, cand))
        /\ \A r \in 1..Len(site_file) :
              site_file[r].partner # <<>> =>
                 site_file[r].overlapped_symbols =
                    Cardinality(SharedPositions(site_file[r].site, site_file[r].partner))

\* a site that shares two positions with its partner, written to the file,
\* beside a site that shares none with it
C20_Witness ==
    /\ opt.predictor_nature = "neutral" /\ pc = "site_wise"
    /\ sites = <<(<<(<<1, 1>>), (<<1, 3>>)>>), (<<(<<2, 3>>)>>)>>
    /\ Len(site_file) = 3
    /\ site_file[2].site = <<1, 3>>
    /\ site_file[2].partner = <<2, 3>>
    /\ site_file[2].overlapped_symbols = 2
    /\ _get_overlapped_symbols(opt, <<1, 1>>, <<2, 3>>, 1) = 0

\* the run is inside process_group of the group GID
InGroup ==
    pc \in {"group", "resolved", "constructed", "residue_wise", "site_wise", "written"}
    \/ (pc = "raised" /\ groups_n = 0)

\* the rows of the output file after the header: the groups in the order of
\* the mapping, each once, as far as the loop has come; then the divider and
\* the Average row, the last two only when clean is off
C19_Rows ==
    LET written == IF InGroup THEN GID - 1 ELSE GID
        groups == Len(input_data.group_map)
    IN  /\ Cardinality(GroupRows) = written
        /\ \A g \in 1..written : ofile[g + 1].kind = "group" /\ ofile[g + 1].GID = g
        /\ \A i \in FinalRows :
              /\ ~opt.clean
              /\ written = groups
              /\ i = Len(ofile) /\ i = groups + 3
              /\ ofile[i].label = "Average"

\* the steps of the run: a row is written when every sequence of the group
\* has been processed; a sequence is counted when its output annotations are
\* written, which follows site-wise, which follows residue-wise
C19_Step ==
    /\ Len(ofile') > Len(ofile) /\ ofile'[Len(ofile')].kind = "group" =>
          /\ pc = "group" /\ SID = Len(input_data.group_map[GID])
          /\ SID' = SID /\ GID' = GID
    /\ SID' # SID => \/ SID' = SID + 1 /\ pc = "written" /\ GID' = GID
                     \/ SID' = 0 /\ pc = "groups" /\ GID' = GID + 1
    /\ GID' # GID => pc = "groups" /\ Cardinality(GroupRows) = GID
    /\ (pc' = "written" /\ pc # "written") =>
          pc = (IF opt.enrichment_count = 0 THEN "site_wise" ELSE "residue_wise")
    /\ (pc' = "site_wise" /\ pc # "site_wise") =>
          pc = "residue_wise" /\ opt.enrichment_count = 0
    /\ (pc' = "residue_wise" /\ pc # "residue_wise") => pc = "constructed"

\* the run has ended with one row for every group and, unless clean output
\* is requested, the Average row
C19_Completed ==
    /\ pc = "done"
    /\ Cardinality(GroupRows) = Len(input_data.group_map)
    /\ ~opt.clean => Cardinality(FinalRows) = 1

\* the order of the rows and of the steps, on every run as far as it comes
C19_OrderOfSteps == []C19_Rows /\ [][C19_Step]_vars

\* C19: a grouped run handles the groups one after another in the order of
\* the mapping; the sequences of a group are processed (residue-wise, then
\* site-wise in Boolean mode, then the output annotations) before the row of
\* the group is written and the row before any sequence of the next group;
\* one row is written for every group, and the Average row after them all
\* and only when clean is off.
C19_GroupedRunOrder == []C19_Rows /\ [][C19_Step]_vars /\ <>C19_Completed

\* the number of positions of the site that both annotations cover
BothUnder(site) == Cardinality({p \in In(1) \cap In(2) : Covers(site, p)})

\* the sites of annotation i that the patched criterion of the claim accepts
PatchedSufficient(i) ==
    {k \in 1..Len(sites[i]) :
        LET site == sites[i][k]
            m == BothUnder(site)
        IN  /\ m >= opt.overlap_symbols
            /\ m * opt.overlap_part[2] >= opt.overlap_part[1] * (site[2] - site[1] + 1)}

\* C21: under patched a site is counted as matched iff the number m of its
\* positions covered by both annotations satisfies m >= overlap_symbols and
\* m / (end - begin + 1) >= overlap_part; the other sites count as unmatched.
C21_PatchedMatchedIffSufficient ==
    (Boolean /\ opt.overlap_apply = "patched" /\ Matched) =>
        \A i \in 1..2 :
            /\ results.site_m[i] = Cardinality(PatchedSufficient(i))
            /\ results.site_nm[i] = Len(sites[i]) - Cardinality(PatchedSufficient(i))

\* a site matched by one of its two positions beside a site of the other
\* annotation that shares no position
C21_Witness ==
    /\ Boolean /\ opt.overlap_apply = "patched" /\ pc = "site_wise"
    /\ opt.overlap_symbols = 1 /\ opt.overlap_part = <<1, 2>>
    /\ sites = <<(<<(<<1, 2>>)>>), (<<(<<2, 2>>), (<<3, 3>>)>>)>>
    /\ results.site_m = <<1, 1>>
    /\ results.site_nm = <<0, 1>>

\* the sum of the lengths of the sites of annotation i
SumOfLengths(i) == SumTo([k \in 1..Len(sites[i]) |-> sites[i][k][2] - sites[i][k][1] + 1],
                         Len(sites[i]))

Pairwise == opt.overlap_apply \in {"shortest", "longest", "current"}

\* C22: under shortest, longest and current, after calculate_site_wise
\* site_len[i] is the number of the positions that the sites of annotation i
\* cover when gross is off and the sum of their lengths when gross is on.
C22_SiteLenIsCoveredLength ==
    (Boolean /\ Pairwise /\ Matched) =>
        \A i \in 1..2 :
            results.site_len[i] = IF opt.gross THEN SumOfLengths(i)
                                  ELSE Cardinality(In(i))

\* C22 under gross counting
C22_SiteLenGross ==
    (Boolean /\ Pairwise /\ Matched /\ opt.gross) =>
        \A i \in 1..2 : results.site_len[i] = SumOfLengths(i)

\* C22 for sites none of which lies inside another
C22_SiteLenNotNested ==
    (Boolean /\ Pairwise /\ Matched /\ ~opt.gross) =>
        \A i \in 1..2 :
            (\A k \in 1..(Len(sites[i]) - 1) : sites[i][k][2] <= sites[i][k + 1][2])
               => results.site_len[i] = Cardinality(In(i))

\* C23: under patched, after calculate_site_wise site_len[i] is the length
\* covered by the sites of annotation i (the unique length, or the sum of the
\* lengths under gross), hence positive when the annotation has a site.
C23_PatchedSiteLen ==
    (Boolean /\ opt.overlap_apply = "patched" /\ Matched) =>
        \A i \in 1..2 :
            /\ results.site_len[i] = IF opt.gross THEN SumOfLengths(i)
                                     ELSE Cardinality(In(i))
            /\ Len(sites[i]) > 0 => results.site_len[i] > 0

\* what the patched branch leaves in site_len
C23_PatchedSiteLenIsZero ==
    (Boolean /\ opt.overlap_apply = "patched" /\ Matched) =>
        results.site_len = <<0, 0>>

\* the sum over the sites of annotation i of the positions under the site
\* that both annotations cover
SumOfBoth(i) == SumTo([k \in 1..Len(sites[i]) |-> BothUnder(sites[i][k])], Len(sites[i]))

\* C24: under gross counting pp_[i] is the sum over the sites of annotation i
\* of their positions classified 'both', pa and ap are the sums of the rest
\* of the site lengths, so pp_[1] + pa and pp_[2] + ap are the sums of the
\* site lengths, and aa is the number of positions that no annotation covers.
C24_GrossCounts ==
    (Boolean /\ Counted /\ opt.gross) =>
        /\ \A i \in 1..2 : results.pp_[i] = SumOfBoth(i)
        /\ results.pa = SumOfLengths(1) - SumOfBoth(1)
        /\ results.ap = SumOfLengths(2) - SumOfBoth(2)
        /\ results.pp_[1] + results.pa = SumOfLengths(1)
        /\ results.pp_[2] + results.ap = SumOfLengths(2)
        /\ results.aa = length - Cardinality(In(1) \cup In(2))

\* two overlapping sites of the first annotation, both sharing position 2
\* with the site of the second: pp_ is not symmetric
C24_Witness ==
    /\ Boolean /\ pc = "residue_wise" /\ opt.gross /\ length = 4
    /\ sites = <<(<<(<<1, 2>>), (<<2, 3>>)>>), (<<(<<2, 2>>)>>)>>
    /\ results.pp_ = <<2, 1>>
    /\ results.pa = 2 /\ results.ap = 0 /\ results.aa = 1

\* the enrichment calculator is constructed
EnrichmentConstructed == opt.enrichment_count > 0 /\ pc = "constructed"

\* the larger of the two numbers of sites
MostSites == Max(Len(sites[1]), Len(sites[2]))

\* C25: in enrichment mode the byte width w that _estimate_required_precison
\* chooses is one of 1, 2, 4, 8 and the larger number of sites is at most
\* 2^(8w-1) - 1 (its logarithm is at most 8w - 1), so that every counter
\* holds the number of sites over its symbol and every difference of two
\* counters fits the width; no accepted number of sites needs more than 8
\* bytes
C25_PrecisionHoldsCounts ==
    opt.enrichment_count > 0 /\ pc \in {"constructed", "raised"} =>
        LET w == _estimate_required_precison(sites)
        IN  /\ pc = "constructed" <=> BytesEstimate(sites) <= 8
            /\ pc = "constructed" =>
                /\ w \in {1, 2, 4, 8}
                /\ CeilLog2(MostSites + 1) <= 8 * w - 1
                /\ w <= 2 => MostSites <= Pow2(8 * w - 1) - 1
                /\ \A i \in 1..2 : \A idx \in DOMAIN seq[i] :
                       seq[i][idx] = Cardinality({k \in 1..Len(sites[i]) :
                                                     InRange(sites[i][k], idx)})
                /\ \A i \in 1..2 : \A idx \in DOMAIN seq[i] :
                       Wrap(seq[i][idx] - seq[3 - i][idx], w)
                           = seq[i][idx] - seq[3 - i][idx]

\* 127 sites are counted in one byte, 128 sites in two
C25_Witness ==
    /\ EnrichmentConstructed
    /\ Len(sites[1]) = 128 /\ Len(sites[2]) = 127
    /\ _estimate_required_precison(sites) = 2
    /\ _estimate_required_precison(<<sites[2], sites[2]>>) = 1
    /\ seq[1][0] = 128 /\ seq[2][0] = 127

\* C26: in enrichment mode, n >= 1, calculate_residue_wise completes on every
\* sequence, with or without the detailed file, so that the partition
\* identities e[1] + e[2] - ee + ne = L and re[1] + re[2] + nre = L can be
\* read off its results: the call never ends in an exception
C26_EnrichmentResidueWiseCompletes ==
    opt.enrichment_count >= 1 /\ BytesEstimate(sites) <= 8 => pc # "raised"

\* resolving the resolved list of annotation i once more leaves it as it is
ResolvedAgain(i) == ResolveList(Policy(opt, i), sites[i]) = sites[i]

\* C27: for each of the policies first, last and merge, applying the
\* resolution to the resolved list of a list sorted by begin returns the
\* same list
C27_ResolveIdempotent ==
    pc = "resolved" =>
        \A i \in 1..2 : Policy(opt, i) \in {"first", "last", "merge"} => ResolvedAgain(i)

\* the part of C27 that the code keeps: the policies last and merge
C27_LastAndMergeIdempotent ==
    pc = "resolved" =>
        \A i \in 1..2 : Policy(opt, i) \in {"last", "merge"} => ResolvedAgain(i)

\* the classifier of the mode is constructed: its array is filled
Classified == pc \notin {"sorted", "resolved", "raised"} \/ (pc = "raised" /\ seq # <<>>)

\* the three exclusive categories that hold at the index idx
ExclusiveTypesAt(idx) ==
    {type_ \in {"intersection", "complement1", "complement2"} : InType(opt, seq, type_, idx)}

\* C28: in the Boolean and in the enrichment classifier, at every position
\* at most one of intersection, complement1 and complement2 holds, and union
\* holds iff exactly one of the three holds
C28_CategoriesExclusive ==
    Classified =>
        \A idx \in 0..(length - 1) :
            /\ Cardinality(ExclusiveTypesAt(idx)) <= 1
            /\ InType(opt, seq, "union", idx) <=> Cardinality(ExclusiveTypesAt(idx)) = 1

\* enrichment with n = 1: one position in each of the three categories,
\* the one in the intersection covered twice by the first annotation, and
\* one position in none
C28_Witness ==
    /\ pc = "constructed" /\ opt.enrichment_count = 1 /\ length = 4
    /\ ExclusiveTypesAt(0) = {"complement2"}
    /\ ExclusiveTypesAt(1) = {"intersection"} /\ seq[1][1] = 2
    /\ ExclusiveTypesAt(2) = {"complement1"}
    /\ ExclusiveTypesAt(3) = {}
    /\ ~InType(opt, seq, "union", 3)

\* the pairs of a site of the first and a site of the second annotation
SitePairs == {<<sites[1][k], sites[2][m]>> : k \in 1..Len(sites[1]), m \in 1..Len(sites[2])}

\* the pair <<s1, s2>> is one that the predictor nature excludes
ExcludedByNature(s1, s2) ==
    \/ opt.predictor_nature = "lagging" /\ s2[1] < s1[1]
    \/ opt.predictor_nature = "leading" /\ s2[1] > s1[1]

\* C29: under the lagging and the leading predictor nature the overlap of
\* a pair of sites, one of each annotation, is the same whether it is taken
\* from the site of the first or from the site of the second annotation: on
\* both sides it is 0 for the pairs that the nature excludes (lagging: the
\* second site begins before the first; leading: it begins after the first)
\* and the number of shared positions for the other pairs
C29_NatureSymmetric ==
    (Matched /\ opt.predictor_nature # "neutral") =>
        \A pair \in SitePairs :
            LET s1 == pair[1]
                s2 == pair[2]
                expected == IF ExcludedByNature(s1, s2) THEN 0
                            ELSE Cardinality({p \in 1..length : Covers(s1, p) /\ Covers(s2, p)})
            IN  /\ _get_overlapped_symbols(opt, s1, s2, 1) = expected
                /\ _get_overlapped_symbols(opt, s2, s1, 2) = expected

\* lagging: the sites [2,3] and [1,2] share position 2, the second begins
\* before the first, and neither site is matched
C29_Witness ==
    /\ Matched /\ opt.predictor_nature = "lagging"
    /\ opt.overlap_symbols = 1 /\ opt.overlap_part = <<0, 1>>
    /\ sites = <<(<<(<<2, 3>>)>>), (<<(<<1, 2>>)>>)>>
    /\ _get_overlapped_symbols(opt, <<2, 3>>, <<1, 2>>, 1) = 0
    /\ _get_overlapped_symbols(opt, <<1, 2>>, <<2, 3>>, 2) = 0
    /\ results.site_m = <<0, 0>> /\ results.site_nm = <<1, 1>>

\* C30: with overlap_apply shortest or longest, overlap_symbols >= 1 and any
\* predictor nature, the first annotation has a matched site iff the second
\* annotation has one
C30_MatchExistsOnBothSides ==
    (Matched /\ opt.overlap_apply \in {"shortest", "longest"} /\ opt.overlap_symbols >= 1) =>
        (results.site_m[1] > 0 <=> results.site_m[2] > 0)

\* leading, longest: two sites of the first annotation match the one site
\* of the second, which begins with the first of them
C30_Witness ==
    /\ Matched /\ opt.predictor_nature = "leading" /\ opt.overlap_apply = "longest"
    /\ opt.overlap_part = <<1, 2>>
    /\ sites = <<(<<(<<1, 2>>), (<<1, 3>>)>>), (<<(<<1, 3>>)>>)>>
    /\ results.site_m = <<2, 1>>

=============================================================================
